---- MODULE Spec2Model ----
(***************************************************************************)
(* Fraud-triage backend: action handlers (freeze-card, open-dispute,       *)
(* mark-false-positive) with their middleware, the sliding-window rate     *)
(* limiter, and the triage orchestrator with its SSE stream.               *)
(*                                                                         *)
(* Every await on the store is a suspension point of a handler, so a       *)
(* handler is a sequence of steps; what runs between two awaits is one     *)
(* atomic step (Node runs it in one turn of the event loop).               *)
(***************************************************************************)
EXTENDS Integers, Sequences, FiniteSets, TLC

VARIABLES
    cards,              \* cards.status, by card id
    kyc_level,          \* customers.kyc_level of the owning customer
    alerts,             \* alerts.status, by alert id
    cases,              \* cases rows, in insertion order (id = position)
    caseEvents,         \* case_events rows, in insertion order
    reqs,               \* the action requests: inputs, position, locals, response
    served,             \* number of action requests received so far
    idempotencyCache,   \* Map<string, any> of idempotencyMiddleware
    faults,             \* store failures injected so far
    clock,              \* Date.now(), in milliseconds
    zsets,              \* the sorted set ratelimit:<client>: the scores, oldest first
    pending,            \* rejected checkLimit calls that await their zrange
    rlLog,              \* the results checkLimit returned, by client, in order
    tdb,                \* the rows a triage run reads: alert, customer, transactions
    orch,               \* the TriageOrchestrator of the run: position, attempt, steps
    emitted,            \* the events the orchestrator emitted, in order
    streams,            \* the SSE responses of GET /:runId/stream
    activeRuns,         \* whether the run is in the activeRuns map
    triageRuns,         \* triage_runs rows
    agentTraces,        \* agent_traces rows
    txns,               \* transactions rows: id, ts, customer_id
    pg,                 \* a client following nextCursor: limit, cursor, items so far
    red                 \* a call of redactPII: the text and what is returned

actionVars == <<cards, kyc_level, alerts, cases, caseEvents, reqs, served, idempotencyCache, faults>>
rateVars == <<clock, zsets, pending, rlLog>>
triageVars == <<tdb, orch, emitted, streams, activeRuns, triageRuns, agentTraces>>

pageVars == <<txns, pg>>

redVars == <<red>>

vars == <<actionVars, rateVars, triageVars, pageVars, redVars>>

-----------------------------------------------------------------------------
(* Bounds *)

\* requests handled one after the other in the sequential specification
MaxSeqReq == 3
\* requests in flight together in the concurrent specification
MaxConcReq == 2
\* store failures injected in one behaviour
MaxFaults == 1
\* checkLimit calls made in one behaviour
MaxRateReq == 7
\* the clock stops here
MaxTime == 2000
\* SSE streams opened for the run
MaxStreams == 1
\* transactions rows, those inserted while a client pages included
MaxTxns == 4
\* distinct transaction timestamps
MaxTs == 2
\* store calls of the rate limiter that fail
MaxStoreErrors == 2
\* pieces of a text given to redactPII
MaxPieces == 3

-----------------------------------------------------------------------------
(* Rows of the store *)

CardIds == {"c1", "c2"}
TxnIds == {"t1"}
AlertIds == {"a1", "a2"}
NoId == "none"

InitCards == [c \in CardIds |-> IF c = "c1" THEN "active" ELSE "blocked"]
InitAlerts == [a \in AlertIds |-> IF a = "a1" THEN "open" ELSE "resolved"]

\* prisma.case.create: the row gets the next id
NewCase(type, status, txn) ==
    [id |-> Len(cases) + 1, type |-> type, status |-> status, txn_id |-> txn]

\* prisma.caseEvent.create; ref is the entity id carried in payload_json
NewCaseEvent(caseId, action, ref) ==
    [case_id |-> caseId, actor |-> "system", action |-> action, ref |-> ref]

\* prisma.case.findFirst({txn_id, type: 'dispute', status in [open, investigating]})
\* mutant: the newest row is overwritten by the new one
CaseEventUpsert(log, event) ==
    IF log = <<>> THEN <<event>> ELSE [log EXCEPT ![Len(log)] = event]

\* prisma.caseEvent.create: a row is added
CaseEventCreate(log, event) == Append(log, event)

OpenDisputes(txn) ==
    {i \in 1..Len(cases) :
        /\ cases[i].txn_id = txn
        /\ cases[i].type = "dispute"
        /\ cases[i].status \in {"open", "investigating"}}

-----------------------------------------------------------------------------
(* Requests *)

Routes == {"freeze-card", "open-dispute", "mark-false-positive"}
NoOtp == "absent"
DemoOtp == "123456"
Otps == {NoOtp, DemoOtp, "000000"}
NoKey == "nokey"
IdemKeys == {"k1"}
NoBody == [status |-> "none", caseId |-> 0]
NoRes == [code |-> 0, body |-> NoBody]

Body(status, caseId) == [status |-> status, caseId |-> caseId]

Targets(route) ==
    CASE route = "freeze-card" -> CardIds \cup {NoId}
      [] route = "open-dispute" -> TxnIds \cup {NoId}
      [] OTHER -> AlertIds \cup {NoId}

\* the inputs of one request; fields a route does not read are fixed
Inputs(keys) ==
    { [route |-> rt, apiKey |-> k, idem |-> ik, target |-> t, otp |-> o, confirm |-> cf] :
        rt \in Routes, k \in BOOLEAN, ik \in keys,
        t \in CardIds \cup TxnIds \cup AlertIds \cup {NoId},
        o \in Otps, cf \in BOOLEAN }

ValidInput(in) ==
    /\ in.target \in Targets(in.route)
    /\ in.route # "freeze-card" => in.otp = NoOtp
    /\ in.route # "open-dispute" => in.confirm = FALSE

NoInput == [route |-> "freeze-card", apiKey |-> FALSE, idem |-> NoKey,
            target |-> NoId, otp |-> NoOtp, confirm |-> FALSE]

\* a request slot: the inputs, the handler's position and locals, the response.
\* handled: next() reached the route handler; snap: the status the handler read;
\* writes: store writes this request made
NewReq == [in |-> NoInput, pc |-> "new", wrapped |-> FALSE, handled |-> FALSE,
           snap |-> NoId, requiresOtp |-> FALSE, caseId |-> 0, writes |-> 0,
           res |-> NoRes]

ReqIds == 1..MaxConcReq

InFlight(r) == reqs[r].pc \notin {"new", "done"}

\* mutant: the key is not checked
RequireApiKeyAny(in) == TRUE

\* requireApiKey: next() is called exactly when the key is the configured one
RequireApiKey(in) == in.apiKey

\* idempotencyMiddleware: the cached body, when the key is in the cache
IdemHit(in) == in.idem # NoKey /\ idempotencyCache[in.idem] # NoBody

\* res.json of a request: the wrapper installed by idempotencyMiddleware stores
\* every body passed to it, whatever the status code
CacheAfter(q, body) ==
    IF q.wrapped THEN [idempotencyCache EXCEPT ![q.in.idem] = body]
    ELSE idempotencyCache

Finish(q, code, body) == [q EXCEPT !.pc = "done", !.res = [code |-> code, body |-> body]]

\* mutant: the already-frozen check is missing
FreezeGateNoFrozenCheck(status, kyc, otp) ==
    IF status = NoId THEN "NOT_FOUND"
    ELSE IF kyc >= 3 /\ otp = NoOtp THEN "PENDING_OTP"
    ELSE IF kyc >= 3 /\ otp # DemoOtp THEN "OTP_FAILED"
    ELSE "PROCEED"

\* freeze-card, after findUnique: the checks between the read and card.update
FreezeGate(status, kyc, otp) ==
    IF status = NoId THEN "NOT_FOUND"
    ELSE IF status = "frozen" THEN "ALREADY_FROZEN"
    ELSE IF kyc >= 3 /\ otp = NoOtp THEN "PENDING_OTP"
    ELSE IF kyc >= 3 /\ otp # DemoOtp THEN "OTP_FAILED"
    ELSE "PROCEED"

\* open-dispute: if (!data.confirm) return 400
ConfirmGate(confirm) == confirm

\* mutant: the lookup matches closed disputes only, so it misses the open one
ExistingDisputeMissed(txn) ==
    {i \in 1..Len(cases) :
        cases[i].txn_id = txn /\ cases[i].type = "dispute" /\ cases[i].status = "closed"}

\* open-dispute: the row case.findFirst may return (no orderBy: any match)
ExistingDispute(txn) == OpenDisputes(txn)

-----------------------------------------------------------------------------
(* Arrival: the middleware chain and the synchronous head of the handler *)

Arrive(r, in) ==
    LET q0 == [NewReq EXCEPT !.in = in] IN
    IF ~RequireApiKey(in) THEN
        /\ reqs' = [reqs EXCEPT ![r] = Finish(q0, 401, Body("Unauthorized", 0))]
        /\ UNCHANGED idempotencyCache
    ELSE IF IdemHit(in) THEN
        /\ reqs' = [reqs EXCEPT ![r] = Finish(q0, 200, idempotencyCache[in.idem])]
        /\ UNCHANGED idempotencyCache
    ELSE
        LET q == [q0 EXCEPT !.wrapped = (in.idem # NoKey), !.handled = TRUE] IN
        IF in.route = "open-dispute" /\ ~ConfirmGate(in.confirm) THEN
            /\ reqs' = [reqs EXCEPT ![r] = Finish(q, 400, Body("Confirmation required", 0))]
            /\ idempotencyCache' = CacheAfter(q, Body("Confirmation required", 0))
        ELSE
            /\ reqs' = [reqs EXCEPT ![r] = [q EXCEPT !.pc = "findUnique"]]
            /\ UNCHANGED idempotencyCache

-----------------------------------------------------------------------------
(* freeze-card *)

\* card.findUnique returns, then the gates run
FreezeRead(r) ==
    /\ reqs[r].pc = "findUnique" /\ reqs[r].in.route = "freeze-card"
    /\ LET in == reqs[r].in
           status == IF in.target \in CardIds THEN cards[in.target] ELSE NoId
           gate == FreezeGate(status, kyc_level, in.otp)
           q == [reqs[r] EXCEPT !.snap = status, !.requiresOtp = (kyc_level >= 3)]
           code == IF gate = "NOT_FOUND" THEN 404 ELSE IF gate = "OTP_FAILED" THEN 400 ELSE 200
       IN IF gate = "PROCEED" THEN
              /\ reqs' = [reqs EXCEPT ![r] = [q EXCEPT !.pc = "update"]]
              /\ UNCHANGED idempotencyCache
          ELSE
              /\ reqs' = [reqs EXCEPT ![r] = Finish(q, code, Body(gate, 0))]
              /\ idempotencyCache' = CacheAfter(q, Body(gate, 0))
    /\ UNCHANGED <<cards, kyc_level, alerts, cases, caseEvents, served, faults>>
    /\ UNCHANGED <<rateVars, triageVars, pageVars, redVars>>

\* prisma.card.update({status: 'frozen'})
FreezeUpdate(r) ==
    /\ reqs[r].pc = "update" /\ reqs[r].in.route = "freeze-card"
    /\ cards' = [cards EXCEPT ![reqs[r].in.target] = "frozen"]
    /\ reqs' = [reqs EXCEPT ![r].pc = "createCase", ![r].writes = @ + 1]
    /\ UNCHANGED <<kyc_level, alerts, cases, caseEvents, served, idempotencyCache, faults>>
    /\ UNCHANGED <<rateVars, triageVars, pageVars, redVars>>

\* prisma.case.create({type: 'card_freeze', status: 'completed'})
FreezeCase(r) ==
    /\ reqs[r].pc = "createCase" /\ reqs[r].in.route = "freeze-card"
    /\ cases' = Append(cases, NewCase("card_freeze", "completed", NoId))
    /\ reqs' = [reqs EXCEPT ![r].pc = "createEvent", ![r].caseId = Len(cases) + 1,
                            ![r].writes = @ + 1]
    /\ UNCHANGED <<cards, kyc_level, alerts, caseEvents, served, idempotencyCache, faults>>
    /\ UNCHANGED <<rateVars, triageVars, pageVars, redVars>>

\* prisma.caseEvent.create({action: 'card_frozen'}), then res.json FROZEN
FreezeEvent(r) ==
    /\ reqs[r].pc = "createEvent" /\ reqs[r].in.route = "freeze-card"
    /\ caseEvents' = CaseEventCreate(caseEvents,
                            NewCaseEvent(reqs[r].caseId, "card_frozen", reqs[r].in.target))
    /\ LET q == [reqs[r] EXCEPT !.writes = @ + 1] IN
          /\ reqs' = [reqs EXCEPT ![r] = Finish(q, 200, Body("FROZEN", q.caseId))]
          /\ idempotencyCache' = CacheAfter(q, Body("FROZEN", q.caseId))
    /\ UNCHANGED <<cards, kyc_level, alerts, cases, served, faults>>
    /\ UNCHANGED <<rateVars, triageVars, pageVars, redVars>>

-----------------------------------------------------------------------------
(* open-dispute *)

\* transaction.findUnique returns; 404 or go on to case.findFirst
DisputeRead(r) ==
    /\ reqs[r].pc = "findUnique" /\ reqs[r].in.route = "open-dispute"
    /\ LET q == [reqs[r] EXCEPT !.snap = IF reqs[r].in.target \in TxnIds THEN "found" ELSE NoId] IN
          IF q.snap = NoId THEN
              /\ reqs' = [reqs EXCEPT ![r] = Finish(q, 404, Body("NOT_FOUND", 0))]
              /\ idempotencyCache' = CacheAfter(q, Body("NOT_FOUND", 0))
          ELSE
              /\ reqs' = [reqs EXCEPT ![r] = [q EXCEPT !.pc = "findFirst"]]
              /\ UNCHANGED idempotencyCache
    /\ UNCHANGED <<cards, kyc_level, alerts, cases, caseEvents, served, faults>>
    /\ UNCHANGED <<rateVars, triageVars, pageVars, redVars>>

\* case.findFirst returns a row: ALREADY_EXISTS with its id
DisputeExists(r) ==
    /\ reqs[r].pc = "findFirst"
    /\ \E i \in ExistingDispute(reqs[r].in.target) :
          /\ reqs' = [reqs EXCEPT ![r] = Finish(reqs[r], 200, Body("ALREADY_EXISTS", cases[i].id))]
          /\ idempotencyCache' = CacheAfter(reqs[r], Body("ALREADY_EXISTS", cases[i].id))
    /\ UNCHANGED <<cards, kyc_level, alerts, cases, caseEvents, served, faults>>
    /\ UNCHANGED <<rateVars, triageVars, pageVars, redVars>>

\* case.findFirst returns null: go on to case.create
DisputeAbsent(r) ==
    /\ reqs[r].pc = "findFirst"
    /\ ExistingDispute(reqs[r].in.target) = {}
    /\ reqs' = [reqs EXCEPT ![r].pc = "createCase"]
    /\ UNCHANGED <<cards, kyc_level, alerts, cases, caseEvents, served, idempotencyCache, faults>>
    /\ UNCHANGED <<rateVars, triageVars, pageVars, redVars>>

\* prisma.case.create({type: 'dispute', status: 'open', txn_id})
DisputeCase(r) ==
    /\ reqs[r].pc = "createCase" /\ reqs[r].in.route = "open-dispute"
    /\ cases' = Append(cases, NewCase("dispute", "open", reqs[r].in.target))
    /\ reqs' = [reqs EXCEPT ![r].pc = "createEvent", ![r].caseId = Len(cases) + 1,
                            ![r].writes = @ + 1]
    /\ UNCHANGED <<cards, kyc_level, alerts, caseEvents, served, idempotencyCache, faults>>
    /\ UNCHANGED <<rateVars, triageVars, pageVars, redVars>>

\* prisma.caseEvent.create({action: 'dispute_opened'}), then res.json OPEN
DisputeEvent(r) ==
    /\ reqs[r].pc = "createEvent" /\ reqs[r].in.route = "open-dispute"
    /\ caseEvents' = CaseEventCreate(caseEvents,
                            NewCaseEvent(reqs[r].caseId, "dispute_opened", reqs[r].in.target))
    /\ LET q == [reqs[r] EXCEPT !.writes = @ + 1] IN
          /\ reqs' = [reqs EXCEPT ![r] = Finish(q, 200, Body("OPEN", q.caseId))]
          /\ idempotencyCache' = CacheAfter(q, Body("OPEN", q.caseId))
    /\ UNCHANGED <<cards, kyc_level, alerts, cases, served, faults>>
    /\ UNCHANGED <<rateVars, triageVars, pageVars, redVars>>

-----------------------------------------------------------------------------
(* mark-false-positive *)

\* alert.findUnique returns; 404 or go on to alert.update
FalsePositiveRead(r) ==
    /\ reqs[r].pc = "findUnique" /\ reqs[r].in.route = "mark-false-positive"
    /\ LET in == reqs[r].in
           q == [reqs[r] EXCEPT !.snap = IF in.target \in AlertIds THEN alerts[in.target] ELSE NoId] IN
          IF q.snap = NoId THEN
              /\ reqs' = [reqs EXCEPT ![r] = Finish(q, 404, Body("NOT_FOUND", 0))]
              /\ idempotencyCache' = CacheAfter(q, Body("NOT_FOUND", 0))
          ELSE
              /\ reqs' = [reqs EXCEPT ![r] = [q EXCEPT !.pc = "update"]]
              /\ UNCHANGED idempotencyCache
    /\ UNCHANGED <<cards, kyc_level, alerts, cases, caseEvents, served, faults>>
    /\ UNCHANGED <<rateVars, triageVars, pageVars, redVars>>

\* prisma.alert.update({status: 'false_positive'})
FalsePositiveUpdate(r) ==
    /\ reqs[r].pc = "update" /\ reqs[r].in.route = "mark-false-positive"
    /\ alerts' = [alerts EXCEPT ![reqs[r].in.target] = "false_positive"]
    /\ reqs' = [reqs EXCEPT ![r].pc = "createCase", ![r].writes = @ + 1]
    /\ UNCHANGED <<cards, kyc_level, cases, caseEvents, served, idempotencyCache, faults>>
    /\ UNCHANGED <<rateVars, triageVars, pageVars, redVars>>

\* prisma.case.create({type: 'false_positive', status: 'closed'})
FalsePositiveCase(r) ==
    /\ reqs[r].pc = "createCase" /\ reqs[r].in.route = "mark-false-positive"
    /\ cases' = Append(cases, NewCase("false_positive", "closed", NoId))
    /\ reqs' = [reqs EXCEPT ![r].pc = "createEvent", ![r].caseId = Len(cases) + 1,
                            ![r].writes = @ + 1]
    /\ UNCHANGED <<cards, kyc_level, alerts, caseEvents, served, idempotencyCache, faults>>
    /\ UNCHANGED <<rateVars, triageVars, pageVars, redVars>>

\* prisma.caseEvent.create({action: 'marked_false_positive'}), then res.json CLOSED
FalsePositiveEvent(r) ==
    /\ reqs[r].pc = "createEvent" /\ reqs[r].in.route = "mark-false-positive"
    /\ caseEvents' = CaseEventCreate(caseEvents,
                            NewCaseEvent(reqs[r].caseId, "marked_false_positive", reqs[r].in.target))
    /\ LET q == [reqs[r] EXCEPT !.writes = @ + 1] IN
          /\ reqs' = [reqs EXCEPT ![r] = Finish(q, 200, Body("CLOSED", q.caseId))]
          /\ idempotencyCache' = CacheAfter(q, Body("CLOSED", q.caseId))
    /\ UNCHANGED <<cards, kyc_level, alerts, cases, served, faults>>
    /\ UNCHANGED <<rateVars, triageVars, pageVars, redVars>>

-----------------------------------------------------------------------------
(* A store call of a handler throws: the catch block answers 500 *)

StoreFail(r) ==
    /\ InFlight(r)
    /\ faults < MaxFaults
    /\ faults' = faults + 1
    /\ reqs' = [reqs EXCEPT ![r] = Finish(reqs[r], 500, Body("FAILED", 0))]
    /\ idempotencyCache' = CacheAfter(reqs[r], Body("FAILED", 0))
    /\ UNCHANGED <<cards, kyc_level, alerts, cases, caseEvents, served>>
    /\ UNCHANGED <<rateVars, triageVars, pageVars, redVars>>

-----------------------------------------------------------------------------
(* Requests arrive *)

SeqInputs == {in \in Inputs({NoKey} \cup IdemKeys) : ValidInput(in)}

\* the races are between handlers that reach their writes
ConcInputs ==
    {in \in SeqInputs :
        /\ in.apiKey
        /\ in.target \in {"c1", "t1", "a1"}
        /\ in.otp \in {NoOtp, DemoOtp}
        /\ in.route = "open-dispute" => in.confirm}

\* one request at a time: the next arrives when the previous was answered
ReceiveSeq(in) ==
    /\ reqs[1].pc \in {"new", "done"}
    /\ served < MaxSeqReq
    /\ served' = served + 1
    /\ Arrive(1, in)
    /\ UNCHANGED <<cards, kyc_level, alerts, cases, caseEvents, faults>>
    /\ UNCHANGED <<rateVars, triageVars, pageVars, redVars>>

\* requests arrive while others are being handled
ReceiveConc(r, in) ==
    /\ reqs[r].pc = "new"
    /\ \A p \in ReqIds : p < r => reqs[p].pc # "new"
    /\ served' = served + 1
    /\ Arrive(r, in)
    /\ UNCHANGED <<cards, kyc_level, alerts, cases, caseEvents, faults>>
    /\ UNCHANGED <<rateVars, triageVars, pageVars, redVars>>

Handle(r) ==
    \/ FreezeRead(r) \/ FreezeUpdate(r) \/ FreezeCase(r) \/ FreezeEvent(r)
    \/ DisputeRead(r) \/ DisputeExists(r) \/ DisputeAbsent(r) \/ DisputeCase(r) \/ DisputeEvent(r)
    \/ FalsePositiveRead(r) \/ FalsePositiveUpdate(r) \/ FalsePositiveCase(r)
    \/ FalsePositiveEvent(r)

-----------------------------------------------------------------------------
(* Rate limiter: RateLimiter.checkLimit over a Redis sorted set *)

Clients == {"ip1", "ip2"}
\* new RateLimiter(5, 1)
capacity == 5
windowSeconds == 1
windowMs == windowSeconds * 1000
\* the clock advances by one of these between two events
TickSteps == {500}

\* mutant: the entries of the last two windows are kept
ZremrangebyscoreTwoWindows(set, windowStart) ==
    SelectSeq(set, LAMBDA t : t > windowStart - windowMs)

\* zremrangebyscore(key, 0, windowStart): scores up to and including windowStart go
Zremrangebyscore(set, windowStart) == SelectSeq(set, LAMBDA t : t > windowStart)

\* mutant: off by one, a sixth request in the window passes
OverCapacityOffByOne(count) == count > capacity + 1

\* if (count > this.capacity) reject
OverCapacity(count) == count > capacity

\* Math.ceil(x / 1000) of an integer x
CeilDiv1000(x) == -((-x) \div 1000)

\* mutant: the wait is returned in milliseconds
RetryAfterMillis(oldestTime, now) ==
    LET retryAfter == oldestTime + windowMs - now
    IN IF retryAfter > 1 THEN retryAfter ELSE 1

\* Math.max(Math.ceil((oldestTime + window * 1000 - now) / 1000), 1)
RetryAfter(oldestTime, now) ==
    LET retryAfter == CeilDiv1000(oldestTime + windowMs - now)
    IN IF retryAfter > 1 THEN retryAfter ELSE 1

RateCalls == LET n(c) == Len(rlLog[c]) + Len(pending[c])
             IN n("ip1") + n("ip2")

\* multi.exec(): zremrangebyscore, zadd, zcard, expire run as one transaction; the
\* call is issued in the same turn as Date.now(), so it runs in clock order
CheckLimitExec(c) ==
    /\ RateCalls < MaxRateReq
    /\ LET now == clock
           set == Append(Zremrangebyscore(zsets[c], now - windowMs), now)
           count == Len(set)
       IN /\ zsets' = [zsets EXCEPT ![c] = set]
          /\ IF OverCapacity(count) THEN
                 /\ pending' = [pending EXCEPT ![c] = Append(@, now)]
                 /\ UNCHANGED rlLog
             ELSE
                 /\ rlLog' = [rlLog EXCEPT ![c] =
                                 Append(@, [t |-> now, allowed |-> TRUE, retryAfter |-> 0,
                                            failed |-> FALSE])]
                 /\ UNCHANGED pending
    /\ UNCHANGED clock
    /\ UNCHANGED <<actionVars, triageVars, pageVars, redVars>>

\* redis.zrange(key, 0, 0, 'WITHSCORES') of a rejected call returns; the call
\* answers {allowed: false, retryAfter}
CheckLimitZrange(c) ==
    /\ pending[c] # <<>>
    /\ LET now == Head(pending[c])
           oldestTime == IF zsets[c] = <<>> THEN 0 ELSE Head(zsets[c])
       IN rlLog' = [rlLog EXCEPT ![c] =
                       Append(@, [t |-> now, allowed |-> FALSE,
                                  retryAfter |-> RetryAfter(oldestTime, now),
                                  failed |-> FALSE])]
    /\ pending' = [pending EXCEPT ![c] = Tail(@)]
    /\ UNCHANGED <<clock, zsets>>
    /\ UNCHANGED <<actionVars, triageVars, pageVars, redVars>>

\* time passes
Tick(d) ==
    /\ clock + d <= MaxTime
    /\ clock' = clock + d
    /\ UNCHANGED <<zsets, pending, rlLog>>
    /\ UNCHANGED <<actionVars, triageVars, pageVars, redVars>>

\* mutant: a store error rejects the request
FailClosed == FALSE

\* catch (error): return {allowed: true}
FailOpen == TRUE

StoreErrors ==
    LET n(c) == Len(SelectSeq(rlLog[c], LAMBDA e : e.failed))
    IN n("ip1") + n("ip2")

\* multi.exec() rejects: the store is unreachable, or the connection broke after
\* the transaction ran (applied); the catch answers
CheckLimitExecFails(c, applied) ==
    /\ RateCalls < MaxRateReq
    /\ StoreErrors < MaxStoreErrors
    /\ LET now == clock IN
          /\ zsets' = [zsets EXCEPT ![c] =
                          IF applied THEN Append(Zremrangebyscore(@, now - windowMs), now) ELSE @]
          /\ rlLog' = [rlLog EXCEPT ![c] =
                          Append(@, [t |-> now, allowed |-> FailOpen, retryAfter |-> 0,
                                     failed |-> TRUE])]
    /\ UNCHANGED <<clock, pending>>
    /\ UNCHANGED <<actionVars, triageVars, pageVars, redVars>>

\* redis.zrange of a call that was over capacity rejects; the catch answers
CheckLimitZrangeFails(c) ==
    /\ pending[c] # <<>>
    /\ StoreErrors < MaxStoreErrors
    /\ rlLog' = [rlLog EXCEPT ![c] =
                    Append(@, [t |-> Head(pending[c]), allowed |-> FailOpen, retryAfter |-> 0,
                               failed |-> TRUE])]
    /\ pending' = [pending EXCEPT ![c] = Tail(@)]
    /\ UNCHANGED <<clock, zsets>>
    /\ UNCHANGED <<actionVars, triageVars, pageVars, redVars>>

\* rateLimitMiddleware: 429 with Retry-After, or next()
RateLimitMiddleware(result) ==
    IF ~result.allowed THEN [next |-> FALSE, status |-> 429, retryAfterHeader |-> result.retryAfter]
    ELSE [next |-> TRUE, status |-> 0, retryAfterHeader |-> 0]

InitRate ==
    /\ clock = 0
    /\ zsets = [c \in Clients |-> <<>>]
    /\ pending = [c \in Clients |-> <<>>]
    /\ rlLog = [c \in Clients |-> <<>>]

NextRate ==
    \/ \E c \in Clients : CheckLimitExec(c)
    \/ \E c \in Clients : CheckLimitZrange(c)
    \/ \E d \in TickSteps : Tick(d)

-----------------------------------------------------------------------------
(* Triage: TriageOrchestrator.execute, the run registry and the SSE stream *)

NoTxn == [amount_cents |-> 0, country |-> "none"]
SuspectTxns == {[amount_cents |-> a, country |-> c] : a \in {50000, 50001}, c \in {"IN", "US"}}

\* the rows a run reads: the alert (if any), its customer's KYC level, its suspect
\* transaction (if any), and the customer's last transactions (at most 20 are read)
NoAlert == [alertExists |-> FALSE, kycLevel |-> 1, suspect |-> NoTxn, txCount |-> 0, merchants |-> 0]
TriageDbs ==
    {NoAlert} \cup
    {[alertExists |-> TRUE, kycLevel |-> k, suspect |-> t, txCount |-> n, merchants |-> m] :
        k \in 1..3, t \in SuspectTxns \cup {NoTxn}, n \in {10, 11, 15, 16}, m \in {2, 3}}

\* the rows of the runs whose streams are modelled
StreamDbs ==
    {d \in TriageDbs :
        ~d.alertExists \/ (d.kycLevel = 2 /\ d.suspect.country = "US"
                              /\ d.suspect.amount_cents = 50001 /\ d.txCount = 16
                              /\ d.merchants = 3)}

NoResult == [risk |-> "none", recommendation |-> "none", reasons |-> <<>>,
             requiresOtp |-> FALSE, fallbackUsed |-> FALSE]

Event(type, name, ok, attempt, result) ==
    [type |-> type, name |-> name, ok |-> ok, attempt |-> attempt, result |-> result]
StartEvent == Event("start", "", TRUE, 0, NoResult)
StepEvent(name, ok) == Event("step", name, ok, 0, NoResult)
RetryEvent(attempt) == Event("retry", "riskSignals", TRUE, attempt, NoResult)
FallbackEvent == Event("fallback", "riskSignals", TRUE, 0, NoResult)
CompleteEvent(result) == Event("complete", "", TRUE, 0, result)
ErrorEvent == Event("error", "", FALSE, 0, NoResult)

TerminalTypes == {"complete", "error"}
\* the events checkOrchestrator registers a listener for
ListenedTypes == {"start", "step", "fallback", "complete", "error"}

\* executeStepWithRetry(name, fn, 2)
maxRetries == 2

\* mutant: one attempt more than attempt <= maxRetries allows
RetriesLeftOffByOne(attempt) == attempt <= maxRetries

\* the loop goes on after a failed attempt: attempt + 1 <= maxRetries
RetriesLeft(attempt) == attempt < maxRetries

\* mutant: the velocity rule fires above 20 transactions
RiskSignalRulesVelocityAt20(d) ==
    LET s1 == IF d.txCount > 20 THEN <<"high_velocity">> ELSE <<>>
        s2 == IF d.suspect.amount_cents > 50000 THEN <<"large_amount">> ELSE <<>>
        s3 == IF d.suspect.country # "IN" THEN <<"foreign_transaction">> ELSE <<>>
        s4 == IF d.merchants < 3 /\ d.txCount > 10 THEN <<"merchant_concentration">> ELSE <<>>
    IN s1 \o s2 \o s3 \o s4

\* riskSignals: the signal rules, in the order they are pushed
RiskSignalRules(d) ==
    LET suspectAmount == d.suspect.amount_cents     \* ?.amount_cents || 0
        s1 == IF d.txCount > 15 THEN <<"high_velocity">> ELSE <<>>
        s2 == IF suspectAmount > 50000 THEN <<"large_amount">> ELSE <<>>
        \* suspectTransaction?.country !== 'IN' holds too when there is no transaction
        s3 == IF d.suspect.country # "IN" THEN <<"foreign_transaction">> ELSE <<>>
        s4 == IF d.merchants < 3 /\ d.txCount > 10 THEN <<"merchant_concentration">> ELSE <<>>
    IN s1 \o s2 \o s3 \o s4

\* Math.min(signals.length * 0.25, 1.0), in hundredths
Score(signals) == IF Len(signals) * 25 < 100 THEN Len(signals) * 25 ELSE 100

RiskResult(d) == [signals |-> RiskSignalRules(d), score |-> Score(RiskSignalRules(d))]
\* the substitute of the fallback step
FallbackResult == [signals |-> <<"service_unavailable">>, score |-> 50]
NoRisk == [signals |-> <<>>, score |-> 0]

\* mutant: the reasons are the signals, also when there is none
DecideReasonsAsSignals(risk, kycLevel) ==
    LET level == IF risk.score >= 60 THEN "high"
                 ELSE IF risk.score >= 30 THEN "medium" ELSE "low"
    IN [risk |-> level,
        recommendation |-> IF level = "high" THEN "freeze_card"
                           ELSE IF level = "medium" THEN "contact_customer"
                           ELSE "mark_false_positive",
        reasons |-> risk.signals,
        requiresOtp |-> (level = "high" /\ kycLevel < 3),
        fallbackUsed |-> FALSE]

\* mutant: high from a score of 0.5
DecideThreshold50(risk, kycLevel) ==
    LET level == IF risk.score >= 50 THEN "high"
                 ELSE IF risk.score >= 30 THEN "medium" ELSE "low"
    IN [risk |-> level,
        recommendation |-> IF level = "high" THEN "freeze_card"
                           ELSE IF level = "medium" THEN "contact_customer"
                           ELSE "mark_false_positive",
        reasons |-> IF Len(risk.signals) > 0 THEN risk.signals ELSE <<"no_clear_risk">>,
        requiresOtp |-> (level = "high" /\ kycLevel < 3),
        fallbackUsed |-> FALSE]

\* the decide step
Decide(risk, kycLevel) ==
    LET level == IF risk.score >= 60 THEN "high"
                 ELSE IF risk.score >= 30 THEN "medium" ELSE "low"
    IN [risk |-> level,
        recommendation |-> IF level = "high" THEN "freeze_card"
                           ELSE IF level = "medium" THEN "contact_customer"
                           ELSE "mark_false_positive",
        reasons |-> IF Len(risk.signals) > 0 THEN risk.signals ELSE <<"no_clear_risk">>,
        requiresOtp |-> (level = "high" /\ kycLevel < 3),
        fallbackUsed |-> FALSE]

\* this.steps.some(s => !s.success)
SomeStepFailed(steps) == \E i \in 1..Len(steps) : ~steps[i].ok

Step(name, ok) == [name |-> name, ok |-> ok]

StreamIds == 1..MaxStreams

NoStream == [pc |-> "none", frames |-> <<>>, clientOpen |-> FALSE, listening |-> FALSE,
             late |-> FALSE, lost |-> 0]
ConnectedFrame == Event("connected", "", TRUE, 0, NoResult)
NotFoundFrame == Event("error", "Run not found", FALSE, 0, NoResult)

\* one emit() reaching the listeners of a stream: res.write, and res.end on a
\* terminal event; a write to a response whose client has gone is lost
DeliverOne(st, e) ==
    IF st.listening /\ e.type \in ListenedTypes /\ st.pc = "subscribed" THEN
        [st EXCEPT !.frames = IF st.clientOpen THEN Append(@, e) ELSE @,
                   !.lost = IF st.clientOpen THEN @ ELSE @ + 1,
                   !.pc = IF e.type \in TerminalTypes THEN "ended" ELSE @]
    ELSE st

RECURSIVE Deliver(_, _)
Deliver(st, evs) ==
    IF evs = <<>> THEN st ELSE Deliver(DeliverOne(st, Head(evs)), Tail(evs))

\* this.emit(...) of each event of evs, in order
Emit(evs) ==
    /\ emitted' = emitted \o evs
    /\ streams' = [s \in StreamIds |-> Deliver(streams[s], evs)]

\* executeStep: the step is pushed to this.steps and emitted
PushSteps(o, names, ok) == [o EXCEPT !.steps = @ \o [i \in 1..Len(names) |-> Step(names[i], ok[i])]]

\* mutant: 'complete' is emitted with the decision, before the run is saved
DecideEventsCompleteEarly(result) == <<StepEvent("decide", TRUE), CompleteEvent(result)>>

\* the events of the turn in which decide runs
DecideEvents(result) == <<StepEvent("decide", TRUE)>>

\* timedOut: some step of this.steps has the error '<name> timeout';
\* delays: the milliseconds slept before each retry
NoOrch == [pc |-> "idle", attempt |-> 0, steps |-> <<>>, risk |-> NoRisk,
           decision |-> NoResult, runRow |-> 0, timedOut |-> FALSE, delays |-> <<>>]

RECURSIVE Pow2(_)
\* Math.pow(2, n)
Pow2(n) == IF n = 0 THEN 1 ELSE 2 * Pow2(n - 1)

\* Math.min(150 * Math.pow(2, attempt - 1), 400)
Delay(attempt) == IF 150 * Pow2(attempt - 1) < 400 THEN 150 * Pow2(attempt - 1) ELSE 400

\* what fn() of a step does: its promise resolves, rejects, or never settles
StepOutcomes == {"resolves", "rejects", "hangs"}

\* mutant: executeStep awaits fn() alone
RaceSettlesWithoutTimer(out) == out # "hangs"

\* Promise.race([fn(), this.timeout(5000, ...)]) settles whatever fn() does: the
\* timer rejects after 5 s
RaceSettles(out) == TRUE

\* the step succeeded
StepOk(out) == out = "resolves"

\* POST /api/triage: the orchestrator is registered and execute() runs up to its
\* first await: 'start' is emitted before the response carries the runId
StartTriage ==
    /\ orch.pc = "idle"
    /\ orch' = [orch EXCEPT !.pc = "getProfile"]
    /\ activeRuns' = TRUE
    /\ Emit(<<StartEvent>>)
    /\ UNCHANGED <<tdb, triageRuns, agentTraces>>
    /\ UNCHANGED <<actionVars, rateVars, pageVars, redVars>>

\* a step that is not retried: it succeeds and the run goes on, or it fails (the
\* call throws or the 5 s timeout wins) and the catch of execute emits 'error'
PlainStep(name, out, next) ==
    /\ orch.pc = name
    /\ IF ~RaceSettles(out) THEN
           /\ orch' = [orch EXCEPT !.pc = "hung"]
           /\ UNCHANGED <<emitted, streams>>
       ELSE IF StepOk(out) THEN
           /\ orch' = [PushSteps(orch, <<name>>, <<TRUE>>) EXCEPT !.pc = next]
           /\ Emit(<<StepEvent(name, TRUE)>>)
       ELSE
           /\ orch' = [PushSteps(orch, <<name>>, <<FALSE>>) EXCEPT
                          !.pc = "done", !.timedOut = @ \/ out = "hangs"]
           /\ Emit(<<StepEvent(name, FALSE), ErrorEvent>>)
    /\ UNCHANGED <<tdb, activeRuns, triageRuns, agentTraces>>
    /\ UNCHANGED <<actionVars, rateVars, pageVars, redVars>>

\* getProfile: throws 'Alert not found' when the alert does not exist
\* mutant: a missing alert does not make getProfile throw
GetProfileIgnoresMissingAlert(out) == PlainStep("getProfile", out, "recentTransactions")

GetProfile(out) ==
    PlainStep("getProfile", IF StepOk(out) /\ ~tdb.alertExists THEN "rejects" ELSE out,
              "recentTransactions")

RecentTransactions(out) == PlainStep("recentTransactions", out, "riskSignals")

KbLookup(out) == PlainStep("kbLookup", out, "decide")

\* one attempt of riskSignals inside executeStepWithRetry; a retry is announced by
\* 'retry' in the turn of its attempt; the third failure emits 'fallback' and runs
\* the riskSignals_fallback step in the same turn
RiskSignals(out) ==
    /\ orch.pc = "riskSignals"
    /\ LET retry == IF orch.attempt > 0 THEN <<RetryEvent(orch.attempt)>> ELSE <<>>
           \* await this.sleep(delay) before a retry
           o == IF orch.attempt > 0
                THEN [orch EXCEPT !.delays = Append(@, Delay(orch.attempt))] ELSE orch
       IN
       IF ~RaceSettles(out) THEN
           /\ orch' = [o EXCEPT !.pc = "hung"]
           /\ Emit(retry)
       ELSE IF StepOk(out) THEN
           /\ orch' = [PushSteps(o, <<"riskSignals">>, <<TRUE>>) EXCEPT
                          !.pc = "kbLookup", !.risk = RiskResult(tdb)]
           /\ Emit(retry \o <<StepEvent("riskSignals", TRUE)>>)
       ELSE IF RetriesLeft(orch.attempt) THEN
           /\ orch' = [PushSteps(o, <<"riskSignals">>, <<FALSE>>) EXCEPT
                          !.attempt = @ + 1, !.timedOut = @ \/ out = "hangs"]
           /\ Emit(retry \o <<StepEvent("riskSignals", FALSE)>>)
       ELSE
           /\ orch' = [PushSteps(o, <<"riskSignals", "riskSignals_fallback">>, <<FALSE, TRUE>>)
                          EXCEPT !.pc = "kbLookup", !.risk = FallbackResult,
                                 !.timedOut = @ \/ out = "hangs"]
           /\ Emit(retry \o <<StepEvent("riskSignals", FALSE), FallbackEvent,
                              StepEvent("riskSignals_fallback", TRUE)>>)
    /\ UNCHANGED <<tdb, activeRuns, triageRuns, agentTraces>>
    /\ UNCHANGED <<actionVars, rateVars, pageVars, redVars>>

\* decide (no I/O), then triageRun.create is issued
DecideStep ==
    /\ orch.pc = "decide"
    /\ LET d == Decide(orch.risk, tdb.kycLevel) IN
          /\ orch' = [PushSteps(orch, <<"decide">>, <<TRUE>>) EXCEPT !.pc = "createRun", !.decision = d]
          /\ Emit(DecideEvents(d))
    /\ UNCHANGED <<tdb, activeRuns, triageRuns, agentTraces>>
    /\ UNCHANGED <<actionVars, rateVars, pageVars, redVars>>

\* prisma.triageRun.create returns or throws
CreateRun(ok) ==
    /\ orch.pc = "createRun"
    /\ IF ok THEN
           /\ triageRuns' = Append(triageRuns,
                                   [id |-> Len(triageRuns) + 1, risk |-> orch.decision.risk,
                                    reasons |-> orch.decision.reasons,
                                    fallback_used |-> SomeStepFailed(orch.steps)])
           /\ orch' = [orch EXCEPT !.pc = "createTraces", !.runRow = Len(triageRuns) + 1]
           /\ UNCHANGED <<emitted, streams>>
       ELSE
           /\ orch' = [orch EXCEPT !.pc = "done"]
           /\ Emit(<<ErrorEvent>>)
           /\ UNCHANGED triageRuns
    /\ UNCHANGED <<tdb, activeRuns, agentTraces>>
    /\ UNCHANGED <<actionVars, rateVars, pageVars, redVars>>

\* prisma.agentTrace.createMany returns, then 'complete' is emitted; or it throws
CreateTraces(ok) ==
    /\ orch.pc = "createTraces"
    /\ orch' = [orch EXCEPT !.pc = "done"]
    /\ IF ok THEN
           /\ agentTraces' = agentTraces \o
                  [i \in 1..Len(orch.steps) |->
                      [run_id |-> orch.runRow, seq |-> i - 1,
                       step |-> orch.steps[i].name, ok |-> orch.steps[i].ok]]
           /\ Emit(<<CompleteEvent([orch.decision EXCEPT
                                      !.fallbackUsed = SomeStepFailed(orch.steps)])>>)
       ELSE
           /\ Emit(<<ErrorEvent>>)
           /\ UNCHANGED agentTraces
    /\ UNCHANGED <<tdb, activeRuns, triageRuns>>
    /\ UNCHANGED <<actionVars, rateVars, pageVars, redVars>>

\* mutant: the timer is set when the run starts
CleanupRunFromStart ==
    /\ orch.pc # "idle" /\ activeRuns
    /\ activeRuns' = FALSE
    /\ UNCHANGED <<tdb, orch, emitted, streams, triageRuns, agentTraces>>
    /\ UNCHANGED <<actionVars, rateVars, pageVars, redVars>>

\* the timer set in finally(): activeRuns.delete(runId), 5 minutes after the end
CleanupRun ==
    /\ orch.pc = "done" /\ activeRuns
    /\ activeRuns' = FALSE
    /\ UNCHANGED <<tdb, orch, emitted, streams, triageRuns, agentTraces>>
    /\ UNCHANGED <<actionVars, rateVars, pageVars, redVars>>

\* GET /api/triage/:runId/stream by a client that got the runId: 'connected' is
\* written and checkOrchestrator is scheduled
OpenStream(s) ==
    /\ streams[s].pc = "none"
    /\ \A p \in StreamIds : p < s => streams[p].pc # "none"
    /\ orch.pc # "idle"
    /\ streams' = [streams EXCEPT ![s] =
                      [NoStream EXCEPT !.pc = "waiting", !.frames = <<ConnectedFrame>>,
                                       !.clientOpen = TRUE,
                                       !.late = (orch.pc = "done" /\ activeRuns)]]
    /\ UNCHANGED <<tdb, orch, emitted, activeRuns, triageRuns, agentTraces>>
    /\ UNCHANGED <<actionVars, rateVars, pageVars, redVars>>

\* checkOrchestrator, 100 ms later: 'Run not found' and end, or the listeners and
\* the close handler are registered
CheckOrchestrator(s) ==
    /\ streams[s].pc = "waiting"
    /\ streams' = [streams EXCEPT ![s] =
                      IF ~activeRuns THEN
                          [streams[s] EXCEPT
                              !.pc = "ended",
                              !.frames = IF streams[s].clientOpen THEN Append(@, NotFoundFrame)
                                         ELSE @]
                      ELSE [streams[s] EXCEPT !.pc = "subscribed", !.listening = TRUE]]
    /\ UNCHANGED <<tdb, orch, emitted, activeRuns, triageRuns, agentTraces>>
    /\ UNCHANGED <<actionVars, rateVars, pageVars, redVars>>

\* the client closes the connection: req 'close' removes the listeners, if its
\* handler was registered before the close
Disconnect(s) ==
    /\ streams[s].pc \in {"waiting", "subscribed"}
    /\ streams[s].clientOpen
    /\ streams' = [streams EXCEPT ![s] =
                      [@ EXCEPT !.clientOpen = FALSE,
                                !.listening = FALSE]]
    /\ UNCHANGED <<tdb, orch, emitted, activeRuns, triageRuns, agentTraces>>
    /\ UNCHANGED <<actionVars, rateVars, pageVars, redVars>>

OrchestratorStep ==
    \/ \E out \in StepOutcomes : GetProfile(out)
    \/ \E out \in StepOutcomes : RecentTransactions(out)
    \/ \E out \in StepOutcomes : RiskSignals(out)
    \/ \E out \in StepOutcomes : KbLookup(out)
    \/ DecideStep
    \/ \E ok \in BOOLEAN : CreateRun(ok)
    \/ \E ok \in BOOLEAN : CreateTraces(ok)

ServerStep ==
    \/ OrchestratorStep
    \/ CleanupRun
    \/ \E s \in StreamIds : CheckOrchestrator(s)

NextStream ==
    \/ StartTriage
    \/ ServerStep
    \/ \E s \in StreamIds : OpenStream(s)
    \/ \E s \in StreamIds : Disconnect(s)

-----------------------------------------------------------------------------
(* GET /api/customer/:id/transactions: keyset pagination *)

Customers == {"cu1", "cu2"}
\* the customer whose transactions the client pages through
PageCustomer == "cu1"

\* ids are UUIDs; their order is that of the numbers that stand for them
PageTxnIds == 1..MaxTxns
Timestamps == 1..MaxTs

TxnRow(id, ts, cust) == [id |-> id, ts |-> ts, customer_id |-> cust]

\* a JavaScript number: an integer or NaN
Num(n) == [nan |-> FALSE, n |-> n]
NaN == [nan |-> TRUE, n |-> 0]
\* the limit query values sent: absent (the default '20') and some texts
LimitTexts == {"absent", "0", "-1", "-2", "1", "2", "3", "abc", "150"}
\* parseInt(limit), limit = '20' when absent
ParseInt(text) ==
    CASE text = "absent" -> Num(20)
      [] text = "0" -> Num(0)
      [] text = "-1" -> Num(0 - 1)
      [] text = "-2" -> Num(0 - 2)
      [] text = "1" -> Num(1)
      [] text = "2" -> Num(2)
      [] text = "3" -> Num(3)
      [] text = "150" -> Num(150)
      [] OTHER -> NaN

\* Math.min(parseInt(limit), 100)
LimitNum(text) ==
    IF ParseInt(text).nan THEN NaN
    ELSE IF ParseInt(text).n < 100 THEN ParseInt(text) ELSE Num(100)

NoCursor == <<>>
\* `${last.ts.toISOString()}_${last.id}`: two segments around the underscore
EncodeCursor(row) == <<row.ts, row.id>>
\* const [ts, txnId] = cursor.split('_'); new Date(ts)
DecodeCursor(cursor) == [ts |-> cursor[1], id |-> cursor[2]]

\* mutant: the row of the cursor is matched again
AfterCursorInclusive(row, cursor) ==
    \/ cursor = NoCursor
    \/ row.ts < DecodeCursor(cursor).ts
    \/ (row.ts = DecodeCursor(cursor).ts /\ row.id <= DecodeCursor(cursor).id)

\* where.OR = [{ts: {lt}}, {ts, id: {lt}}], when a cursor is given
AfterCursor(row, cursor) ==
    \/ cursor = NoCursor
    \/ row.ts < DecodeCursor(cursor).ts
    \/ (row.ts = DecodeCursor(cursor).ts /\ row.id < DecodeCursor(cursor).id)

\* orderBy ts desc, id desc
Before(a, b) == a.ts > b.ts \/ (a.ts = b.ts /\ a.id > b.id)

RECURSIVE SortDesc(_)
SortDesc(rows) ==
    IF rows = {} THEN <<>>
    ELSE LET first == CHOOSE a \in rows : \A b \in rows \ {a} : Before(a, b)
         IN <<first>> \o SortDesc(rows \ {first})

\* findMany take: the first n rows, the last -n rows for a negative n
Take(list, n) ==
    IF n >= 0 THEN SubSeq(list, 1, IF n < Len(list) THEN n ELSE Len(list))
    ELSE SubSeq(list, IF Len(list) + n + 1 > 1 THEN Len(list) + n + 1 ELSE 1, Len(list))

\* Array.prototype.slice(0, n)
Slice0(list, n) ==
    IF n >= 0 THEN SubSeq(list, 1, IF n < Len(list) THEN n ELSE Len(list))
    ELSE SubSeq(list, 1, Len(list) + n)

Matching(id, cursor) ==
    SortDesc({row \in txns : row.customer_id = id /\ AfterCursor(row, cursor)})

Failed500 == [status |-> 500, items |-> <<>>, nextCursor |-> NoCursor, hasMore |-> FALSE,
              limitNum |-> Num(0)]

\* the handler: the response to one page request; with a NaN limit findMany
\* throws or applies no limit, as the store client decides (nanThrows)
TransactionsPage(id, cursor, limit, nanThrows) ==
    LET limitNum == LimitNum(limit).n IN
    IF LimitNum(limit).nan THEN
        IF nanThrows THEN [Failed500 EXCEPT !.limitNum = NaN]
        ELSE \* transactions.length > NaN is false
             [status |-> 200, items |-> Matching(id, cursor), nextCursor |-> NoCursor,
              hasMore |-> FALSE, limitNum |-> NaN]
    ELSE
        LET transactions == Take(Matching(id, cursor), limitNum + 1)
            hasMore == Len(transactions) > limitNum
            items == IF hasMore THEN Slice0(transactions, limitNum) ELSE transactions
        IN IF hasMore /\ items = <<>> THEN
               \* last is undefined: last.ts throws, the catch answers 500
               [Failed500 EXCEPT !.limitNum = Num(limitNum)]
           ELSE [status |-> 200, items |-> items,
                 nextCursor |-> IF hasMore THEN EncodeCursor(items[Len(items)]) ELSE NoCursor,
                 hasMore |-> hasMore, limitNum |-> Num(limitNum)]

NoPage == [status |-> 0, items |-> <<>>, nextCursor |-> NoCursor, hasMore |-> FALSE,
           limitNum |-> Num(0)]
NoPaging == [phase |-> "idle", limit |-> "absent", cursor |-> NoCursor, got |-> <<>>,
             start |-> {}, pages |-> 0, last |-> NoPage]

\* the client takes the response: it goes on with nextCursor while hasMore
AfterPage(p, page) ==
    [p EXCEPT !.phase = IF page.status # 200 THEN "failed"
                        ELSE IF page.hasMore THEN "paging" ELSE "done",
              !.cursor = page.nextCursor,
              !.got = @ \o page.items,
              !.pages = @ + 1,
              !.last = page]

\* the first page request, with the limit the client keeps for the iteration
FirstPage(limit, nanThrows) ==
    /\ pg.phase = "idle"
    /\ pg' = AfterPage([pg EXCEPT !.limit = limit,
                                  !.start = {row \in txns : row.customer_id = PageCustomer}],
                       TransactionsPage(PageCustomer, NoCursor, limit, nanThrows))
    /\ UNCHANGED txns
    /\ UNCHANGED <<actionVars, rateVars, triageVars, redVars>>

\* the next page request, with the nextCursor of the last response
NextPage(nanThrows) ==
    /\ pg.phase = "paging"
    /\ pg' = AfterPage(pg, TransactionsPage(PageCustomer, pg.cursor, pg.limit, nanThrows))
    /\ UNCHANGED txns
    /\ UNCHANGED <<actionVars, rateVars, triageVars, redVars>>

\* POST /api/ingest/transactions between two page requests: a new id, any ts
InsertTxn(id, ts, cust) ==
    /\ pg.phase = "paging"
    /\ \A row \in txns : row.id # id
    /\ txns' = txns \cup {TxnRow(id, ts, cust)}
    /\ UNCHANGED pg
    /\ UNCHANGED <<actionVars, rateVars, triageVars, redVars>>

\* the tables a client can find: at most one row per id
TxnTables ==
    {{TxnRow(i, f[i][1], f[i][2]) : i \in {j \in PageTxnIds : f[j] # <<>>}} :
        f \in [PageTxnIds -> {<<>>} \cup (Timestamps \X {PageCustomer}) \cup {<<1, "cu2">>}]}

InitPageIdle ==
    /\ txns = {}
    /\ pg = NoPaging

NextPageSpec ==
    \/ \E limit \in LimitTexts, nanThrows \in BOOLEAN : FirstPage(limit, nanThrows)
    \/ \E nanThrows \in BOOLEAN : NextPage(nanThrows)
    \/ \E id \in PageTxnIds, ts \in Timestamps, cust \in Customers : InsertTxn(id, ts, cust)

-----------------------------------------------------------------------------
(* redactPII *)

\* a text is a sequence of pieces: a maximal run of n digits, a letter (a word
\* character), a blank (not a word character), or the marker put in by redactPII.
\* Such a text has no '@', no '-' and no group of 4 digits, so the patterns for
\* emails, SSNs and Aadhaar numbers find nothing in it
RunLengths == {12, 13, 19, 20}
DigitRun(n) == [kind |-> "digits", n |-> n]
Letter == [kind |-> "letter", n |-> 1]
Blank == [kind |-> "blank", n |-> 1]
\* '****REDACTED****'
Marker == [kind |-> "marker", n |-> 16]

Pieces == {DigitRun(n) : n \in RunLengths} \cup {Letter, Blank}

\* the texts: two runs of digits are never adjacent, they would be one run
InputTexts ==
    UNION {{t \in [1..len -> Pieces] :
               \A i \in 1..len - 1 : ~(t[i].kind = "digits" /\ t[i + 1].kind = "digits")} :
           len \in 0..MaxPieces}

\* \w
IsWordChar(piece) == piece.kind \in {"digits", "letter"}

\* a match of /\b\d{13,19}\b/ is a whole run of 13 to 19 digits with a word
\* boundary on both sides
PanAt(text, i) ==
    /\ text[i].kind = "digits"
    /\ text[i].n >= 13 /\ text[i].n <= 19
    /\ (i = 1 \/ ~IsWordChar(text[i - 1]))
    /\ (i = Len(text) \/ ~IsWordChar(text[i + 1]))

\* PAN_REGEX.test(text), lastIndex being 0 at the start of every call
PanTest(text) == \E i \in 1..Len(text) : PanAt(text, i)

\* text.replace(PAN_REGEX, '****REDACTED****')
PanReplace(text) == [i \in 1..Len(text) |-> IF PanAt(text, i) THEN Marker ELSE text[i]]

redactPII(text) ==
    IF PanTest(text) THEN [redacted |-> PanReplace(text), masked |-> TRUE]
    ELSE [redacted |-> text, masked |-> FALSE]

NoRedaction == [text |-> <<>>, redacted |-> <<>>, masked |-> FALSE, done |-> FALSE]

\* one call of redactPII
Redact ==
    /\ ~red.done
    /\ red' = [red EXCEPT !.redacted = redactPII(red.text).redacted,
                          !.masked = redactPII(red.text).masked,
                          !.done = TRUE]
    /\ UNCHANGED <<actionVars, rateVars, triageVars, pageVars>>

InitRedactIdle == red = [NoRedaction EXCEPT !.done = TRUE]

InitActions ==
    /\ cards = InitCards
    /\ kyc_level \in 1..3
    /\ alerts = InitAlerts
    /\ cases = <<>>
    /\ caseEvents = <<>>
    /\ reqs = [r \in ReqIds |-> NewReq]
    /\ served = 0
    /\ idempotencyCache = [k \in IdemKeys |-> NoBody]
    /\ faults = 0

\* the action subsystem at rest, for the specifications of the other subsystems
InitActionsIdle == InitActions /\ kyc_level = 1

\* no run was started
InitTriage ==
    /\ tdb = NoAlert
    /\ orch = NoOrch
    /\ emitted = <<>>
    /\ streams = [s \in StreamIds |-> NoStream]
    /\ activeRuns = FALSE
    /\ triageRuns = <<>>
    /\ agentTraces = <<>>

InitStream ==
    /\ InitActionsIdle /\ InitRate /\ InitPageIdle /\ InitRedactIdle
    /\ tdb \in StreamDbs
    /\ orch = NoOrch
    /\ emitted = <<>>
    /\ streams = [s \in StreamIds |-> NoStream]
    /\ activeRuns = FALSE
    /\ triageRuns = <<>>
    /\ agentTraces = <<>>

SpecStream == InitStream /\ [][NextStream]_vars

\* runs over every kind of alert, without streams
InitRuns ==
    /\ InitActionsIdle /\ InitRate /\ InitPageIdle /\ InitRedactIdle
    /\ tdb \in TriageDbs
    /\ orch = NoOrch
    /\ emitted = <<>>
    /\ streams = [s \in StreamIds |-> NoStream]
    /\ activeRuns = FALSE
    /\ triageRuns = <<>>
    /\ agentTraces = <<>>

NextRuns ==
    \/ StartTriage
    \/ OrchestratorStep
    \/ CleanupRun

SpecRuns == InitRuns /\ [][NextRuns]_vars

\* timers fire and store calls return; clients open and close streams as they like
FairSpecStream == SpecStream /\ WF_vars(StartTriage) /\ WF_vars(ServerStep)

\* runs over every kind of alert: timers fire and the writes of the run return
FairSpecRuns == SpecRuns /\ WF_vars(OrchestratorStep) /\ WF_vars(CleanupRun)

NextSeq ==
    \/ \E in \in SeqInputs : ReceiveSeq(in)
    \/ Handle(1)

InitSeq == InitActions /\ InitRate /\ InitTriage /\ InitPageIdle /\ InitRedactIdle

SpecSeq == InitSeq /\ [][NextSeq]_vars

NextConc ==
    \/ \E r \in ReqIds, in \in ConcInputs : ReceiveConc(r, in)
    \/ \E r \in ReqIds : Handle(r)
    \/ \E r \in ReqIds : StoreFail(r)

SpecConc == InitSeq /\ [][NextConc]_vars

\* action requests, one at a time, next to a triage run
InitAudit ==
    /\ InitActionsIdle /\ InitRate /\ InitPageIdle /\ InitRedactIdle
    /\ tdb \in StreamDbs /\ tdb.alertExists
    /\ orch = NoOrch
    /\ emitted = <<>>
    /\ streams = [s \in StreamIds |-> NoStream]
    /\ activeRuns = FALSE
    /\ triageRuns = <<>>
    /\ agentTraces = <<>>

NextAudit ==
    \/ \E in \in ConcInputs : ReceiveSeq(in)
    \/ Handle(1)
    \/ StartTriage
    \/ OrchestratorStep

SpecAudit == InitAudit /\ [][NextAudit]_vars

\* a customer with the active card c1 and an alert whose run is high-risk; the
\* run and the freeze-card handler read the same customers.kyc_level
InitOtp ==
    /\ InitActions /\ InitRate /\ InitPageIdle /\ InitRedactIdle
    /\ tdb \in {d \in TriageDbs :
                   /\ d.alertExists /\ d.kycLevel = kyc_level
                   /\ d.suspect = [amount_cents |-> 50001, country |-> "US"]
                   /\ d.txCount = 16 /\ d.merchants = 3}
    /\ orch = NoOrch
    /\ emitted = <<>>
    /\ streams = [s \in StreamIds |-> NoStream]
    /\ activeRuns = FALSE
    /\ triageRuns = <<>>
    /\ agentTraces = <<>>

SpecOtp == InitOtp /\ [][NextAudit]_vars

InitRateSpec == InitActionsIdle /\ InitRate /\ InitTriage /\ InitPageIdle /\ InitRedactIdle

SpecRate == InitRateSpec /\ [][NextRate]_vars

\* the rate limiter with a coordination store that can fail
NextRateFail ==
    \/ CheckLimitExec("ip1")
    \/ CheckLimitZrange("ip1")
    \/ \E d \in TickSteps : Tick(d)
    \/ \E applied \in BOOLEAN : CheckLimitExecFails("ip1", applied)
    \/ CheckLimitZrangeFails("ip1")

SpecRateFail == InitRateSpec /\ [][NextRateFail]_vars

InitPage ==
    /\ InitActionsIdle /\ InitRate /\ InitTriage
    /\ txns \in TxnTables
    /\ pg = NoPaging
    /\ InitRedactIdle

SpecPage == InitPage /\ [][NextPageSpec]_vars

InitRedact ==
    /\ InitActionsIdle /\ InitRate /\ InitTriage /\ InitPageIdle
    /\ red \in {[NoRedaction EXCEPT !.text = t] : t \in InputTexts}

NextRedact == Redact

SpecRedact == InitRedact /\ [][NextRedact]_vars

-----------------------------------------------------------------------------
(* Properties of the action handlers *)

FrozenEvents(c) ==
    {i \in 1..Len(caseEvents) :
        caseEvents[i].action = "card_frozen" /\ caseEvents[i].ref = c}

FreezeCasesOf(c) == {caseEvents[i].case_id : i \in FrozenEvents(c)}

DisputeEvents(t) ==
    {i \in 1..Len(caseEvents) :
        caseEvents[i].action = "dispute_opened" /\ caseEvents[i].ref = t}

FalsePositiveEvents(a) ==
    {i \in 1..Len(caseEvents) :
        caseEvents[i].action = "marked_false_positive" /\ caseEvents[i].ref = a}

Quiet == \A r \in ReqIds : ~InFlight(r)

\* C2: sequential freeze-card calls for the active card c1 that reach the handler.
\* A call that reads the card active, KYC level >= 3, no OTP: PENDING_OTP, no write,
\* card still active. A call that reads it active and passes the gates: FROZEN, card
\* frozen, one card_freeze Case and one card_frozen CaseEvent. A call that reads it
\* frozen: ALREADY_FROZEN, no write. Over the whole series c1 has at most one
\* card_frozen CaseEvent, on its own card_freeze Case, and has one once frozen.
C2_FreezeSeries ==
    LET q == reqs[1]
        n == Cardinality(FrozenEvents("c1"))
    IN /\ n <= 1
       /\ Cardinality(FreezeCasesOf("c1")) = n
       /\ \A k \in FreezeCasesOf("c1") : k \in 1..Len(cases) /\ cases[k].type = "card_freeze"
       /\ n = 1 => cards["c1"] = "frozen"
       /\ Quiet /\ cards["c1"] = "frozen" => n = 1
       /\ Quiet => Cardinality({k \in 1..Len(cases) : cases[k].type = "card_freeze"})
                     = Cardinality({i \in 1..Len(caseEvents) : caseEvents[i].action = "card_frozen"})
       /\ (q.pc = "done" /\ q.handled /\ q.in.route = "freeze-card" /\ q.in.target = "c1") =>
            /\ (q.snap = "active" /\ kyc_level >= 3 /\ q.in.otp = NoOtp) =>
                 /\ q.res = [code |-> 200, body |-> Body("PENDING_OTP", 0)]
                 /\ q.writes = 0 /\ cards["c1"] = "active" /\ n = 0
            /\ (q.snap = "active" /\ (kyc_level < 3 \/ q.in.otp = DemoOtp)) =>
                 /\ q.res = [code |-> 200, body |-> Body("FROZEN", q.caseId)]
                 /\ q.writes = 3 /\ cards["c1"] = "frozen"
                 /\ FreezeCasesOf("c1") = {q.caseId}
            /\ q.snap = "frozen" =>
                 /\ q.res = [code |-> 200, body |-> Body("ALREADY_FROZEN", 0)]
                 /\ q.writes = 0

\* the third call of a series PENDING_OTP, FROZEN, ALREADY_FROZEN for a KYC 3 customer
C2_Witness ==
    /\ kyc_level = 3 /\ served = 3
    /\ idempotencyCache["k1"] = Body("PENDING_OTP", 0)
    /\ reqs[1].pc = "done" /\ reqs[1].in.target = "c1"
    /\ reqs[1].res.body.status = "ALREADY_FROZEN"
    /\ Cardinality(FrozenEvents("c1")) = 1

\* the inputs a policy gate rejects
GateRejects(q) ==
    \/ ~q.in.apiKey
    \/ /\ q.handled /\ q.in.route = "freeze-card"
       /\ q.snap \in {"active", "blocked"} /\ kyc_level >= 3 /\ q.in.otp # DemoOtp
    \/ q.handled /\ q.in.route = "open-dispute" /\ ~q.in.confirm

\* a request rejected by a policy gate (bad API key: 401; freeze-card of a card
\* that is not frozen, KYC level >= 3, OTP missing or wrong: PENDING_OTP or
\* OTP_FAILED; open-dispute without confirm: 400) made no store write.
C3_GateRejectionWritesNothing ==
    LET q == reqs[1] IN
    (q.pc = "done" /\ GateRejects(q)) =>
        /\ q.writes = 0
        /\ ~q.in.apiKey => q.res.code = 401 /\ ~q.handled
        /\ q.in.apiKey /\ q.in.route = "freeze-card" =>
             q.res.body.status = (IF q.in.otp = NoOtp THEN "PENDING_OTP" ELSE "OTP_FAILED")
        /\ q.in.apiKey /\ q.in.route = "open-dispute" => q.res.code = 400

\* C3, on the store itself: the step that answers a gate rejection changes no row
C3_GateRejectionStep ==
    (reqs[1].pc # "done" /\ reqs'[1].pc = "done" /\ GateRejects(reqs'[1]))
        => UNCHANGED <<cards, alerts, cases, caseEvents>>

\* C3: a request rejected by a policy gate leaves every Card, Alert, Case and
\* CaseEvent row unchanged: it made no write, and its answering step changes no row.
C3_GateRejectionLeavesRows ==
    []C3_GateRejectionWritesNothing /\ [][C3_GateRejectionStep]_vars

\* a wrong OTP for a KYC 3 customer was rejected after an earlier freeze of c2
C3_Witness ==
    /\ reqs[1].pc = "done" /\ GateRejects(reqs[1])
    /\ reqs[1].in.apiKey /\ reqs[1].res.body.status = "OTP_FAILED"
    /\ cards["c2"] = "frozen" /\ cards["c1"] = "active"

\* C4: every frozen card has its card_frozen CaseEvent on a card_freeze Case, every
\* false_positive alert its marked_false_positive CaseEvent, and every dispute
\* Case its dispute_opened CaseEvent, in every reachable state.
C4_ActionsAtomicWithAudit ==
    /\ \A c \in CardIds : cards[c] = "frozen" =>
          \E i \in FrozenEvents(c) :
              /\ caseEvents[i].case_id \in 1..Len(cases)
              /\ cases[caseEvents[i].case_id].type = "card_freeze"
    /\ \A a \in AlertIds : alerts[a] = "false_positive" /\ InitAlerts[a] # "false_positive" =>
          FalsePositiveEvents(a) # {}
    /\ \A k \in 1..Len(cases) : cases[k].type = "dispute" =>
          \E i \in 1..Len(caseEvents) :
              caseEvents[i].case_id = k /\ caseEvents[i].action = "dispute_opened"

\* C5: sequential open-dispute calls with confirm for t1 that reach the handler.
\* Once such a call is answered there is exactly one open dispute Case and one
\* dispute_opened CaseEvent for t1; the call that answers OPEN is the one that
\* wrote them, and a call that answers ALREADY_EXISTS wrote nothing and carries
\* the id of that Case.
C5_DisputeSeries ==
    LET q == reqs[1] IN
    /\ Cardinality(OpenDisputes("t1")) <= 1
    /\ Cardinality(DisputeEvents("t1")) <= 1
    /\ (q.pc = "done" /\ q.handled /\ q.in.route = "open-dispute"
          /\ q.in.confirm /\ q.in.target = "t1") =>
         /\ OpenDisputes("t1") = {q.res.body.caseId}
         /\ {caseEvents[i].case_id : i \in DisputeEvents("t1")} = {q.res.body.caseId}
         /\ Cardinality(DisputeEvents("t1")) = 1
         /\ q.res.code = 200
         /\ \/ q.res.body.status = "OPEN" /\ q.writes = 2 /\ q.caseId = q.res.body.caseId
            \/ q.res.body.status = "ALREADY_EXISTS" /\ q.writes = 0

\* a second open-dispute call was answered ALREADY_EXISTS with the Case's id
C5_Witness ==
    /\ reqs[1].pc = "done" /\ reqs[1].handled /\ reqs[1].in.route = "open-dispute"
    /\ reqs[1].res.body.status = "ALREADY_EXISTS"
    /\ reqs[1].res.body.caseId \in OpenDisputes("t1")

\* C6: every transaction has at most one dispute Case that is open or investigating.
C6_OneOpenDisputePerTxn ==
    \A t \in TxnIds : Cardinality(OpenDisputes(t)) <= 1

\* C7: two answered requests with the same Idempotency-Key and the same body got the
\* same response body, and at most one of them wrote to the store (stated for
\* behaviours without a store failure).
C7_IdempotentReplay ==
    faults = 0 =>
        \A r1, r2 \in ReqIds :
            (/\ r1 # r2
             /\ reqs[r1].pc = "done" /\ reqs[r2].pc = "done"
             /\ reqs[r1].in = reqs[r2].in /\ reqs[r1].in.idem # NoKey) =>
                /\ reqs[r1].res.body = reqs[r2].res.body
                /\ reqs[r1].writes = 0 \/ reqs[r2].writes = 0

-----------------------------------------------------------------------------
(* Properties of the rate limiter *)

\* the admitted calls of client c with lo < t <= hi
Admitted(c, lo, hi) ==
    {i \in 1..Len(rlLog[c]) :
        rlLog[c][i].allowed /\ rlLog[c][i].t > lo /\ rlLog[c][i].t <= hi}

\* the ends of the windows that end at, or start at, the time of a call
WindowEnds(c) ==
    {rlLog[c][i].t : i \in 1..Len(rlLog[c])}
        \cup {rlLog[c][i].t + windowMs - 1 : i \in 1..Len(rlLog[c])}

\* C8: in every window of 1 second (s - 1000, s] a client has at most 5 admitted
\* calls.
C8_AtMostCapacityPerWindow ==
    \A c \in Clients : \A s \in WindowEnds(c) :
        Cardinality(Admitted(c, s - windowMs, s)) <= capacity

\* five admitted calls, a rejected one, and one admitted again after the window
C8_Witness ==
    \E c \in Clients :
        /\ Cardinality(Admitted(c, -1, 0)) = capacity
        /\ \E i \in 1..Len(rlLog[c]) : ~rlLog[c][i].allowed
        /\ Admitted(c, windowMs - 1, windowMs) # {}

-----------------------------------------------------------------------------
(* Triage run events and streams *)

TerminalIndexes == {i \in 1..Len(emitted) : emitted[i].type \in TerminalTypes}

\* C1: a run emits at most one terminal event (complete or error, never both),
\* nothing is emitted after it, and a run that is over has emitted exactly one
C1_OneTerminalEvent ==
    /\ Cardinality(TerminalIndexes) <= 1
    /\ \A i \in TerminalIndexes : i = Len(emitted)
    /\ (orch.pc = "done") <=> (Cardinality(TerminalIndexes) = 1)

\* a run that retried, fell back and ended with complete
C1_Witness ==
    /\ orch.pc = "done"
    /\ emitted[Len(emitted)].type = "complete"
    /\ \E i \in 1..Len(emitted) : emitted[i].type = "fallback"
    /\ \E i \in 1..Len(emitted) : emitted[i].type = "retry"

IsPrefix(a, b) == Len(a) <= Len(b) /\ SubSeq(b, 1, Len(a)) = a

\* the stream found its run in the registry
Attached(s) ==
    /\ streams[s].pc \in {"subscribed", "ended"}
    /\ streams[s].frames[Len(streams[s].frames)] # NotFoundFrame

\* C9: the frames written after 'connected' to a stream of a client that stays
\* connected are the run's events from start on, in emission order with none
\* left out, and all of them once the terminal event has closed the stream
C9_StreamDeliversEveryEvent ==
    \A s \in StreamIds :
        (Attached(s) /\ streams[s].clientOpen) =>
            /\ IsPrefix(Tail(streams[s].frames), emitted)
            /\ (streams[s].pc = "ended" => Tail(streams[s].frames) = emitted)

\* the stream was opened after the terminal event and found the run in the registry
LateJoined(s) == streams[s].late /\ streams[s].pc = "subscribed"

GotTerminal(s) ==
    /\ streams[s].pc = "ended"
    /\ streams[s].frames[Len(streams[s].frames)].type \in TerminalTypes
    /\ streams[s].frames[Len(streams[s].frames)] # NotFoundFrame

\* C10: a stream opened after the terminal event of a run that is still in the
\* registry is sent that terminal event and closed by the server (unless the
\* client leaves first)
C10_LateJoinGetsTerminal ==
    \A s \in StreamIds :
        [](LateJoined(s) => <>(GotTerminal(s) \/ ~streams[s].clientOpen))

-----------------------------------------------------------------------------
(* Streams and disconnects; retries, decisions and saved rows of a run *)

C11_NoWriteAfterDisconnect ==
    \A s \in StreamIds :
        (streams[s].pc # "none" /\ ~streams[s].clientOpen) => streams[s].lost = 0

C11_DisconnectStep ==
    (\E s \in StreamIds : streams[s].clientOpen /\ ~streams'[s].clientOpen) =>
        UNCHANGED <<orch, emitted, activeRuns, triageRuns, agentTraces>>

\* C11: after the client of a stream has disconnected the server writes no frame
\* to that response, and the disconnect changes nothing of the run, its events
\* and its saved rows
C11_DisconnectStopsWritesOnly ==
    []C11_NoWriteAfterDisconnect /\ [][C11_DisconnectStep]_vars

IsRiskStep(st) == st.name = "riskSignals"
IsFallbackStep(st) == st.name = "riskSignals_fallback"
RiskAttempts == SelectSeq(orch.steps, IsRiskStep)
FallbackSteps == SelectSeq(orch.steps, IsFallbackStep)

\* C12: riskSignals is attempted at most 3 times; the fallback step is in the
\* trace exactly when 3 attempts failed, it is ok and directly follows the 3
\* failed attempts, and no run ends on a riskSignals failure
C12_RetryThenFallback ==
    /\ Len(RiskAttempts) <= maxRetries + 1
    /\ Len(FallbackSteps) <= 1
    /\ (Len(FallbackSteps) = 1) <=>
           (Len(RiskAttempts) = 3 /\ \A i \in 1..3 : ~RiskAttempts[i].ok)
    /\ Len(FallbackSteps) = 1 =>
           \E j \in 1..Len(orch.steps) - 3 :
               /\ SubSeq(orch.steps, j, j + 3) =
                      <<Step("riskSignals", FALSE), Step("riskSignals", FALSE),
                        Step("riskSignals", FALSE), Step("riskSignals_fallback", TRUE)>>
               /\ orch.risk = FallbackResult
    /\ (orch.pc = "done" /\ Len(orch.steps) > 0) =>
           orch.steps[Len(orch.steps)].name \notin {"riskSignals", "riskSignals_fallback"}

\* all 3 attempts failed and the run completed
C12_Witness ==
    /\ Len(FallbackSteps) = 1
    /\ orch.pc = "done"
    /\ emitted[Len(emitted)].type = "complete"
    /\ emitted[Len(emitted)].result.risk = "medium"

\* more than 15 recent transactions, a suspect transaction above 50000 abroad
HighRiskAlert ==
    /\ tdb.alertExists
    /\ tdb.txCount > 15
    /\ tdb.suspect # NoTxn /\ tdb.suspect.amount_cents > 50000 /\ tdb.suspect.country # "IN"

Completed == emitted # <<>> /\ emitted[Len(emitted)].type = "complete"
CompleteResult == emitted[Len(emitted)].result

Range(seq) == {seq[i] : i \in 1..Len(seq)}

HighFreeze(result) ==
    /\ result.risk = "high"
    /\ result.recommendation = "freeze_card"
    /\ {"high_velocity", "large_amount", "foreign_transaction"} \subseteq Range(result.reasons)

Decided == orch.decision # NoResult

\* C14: the decision is high / freeze_card exactly for a score of at least 0.6
\* (3 or 4 signals), medium / contact_customer exactly for a score in [0.3, 0.6)
\* (2 signals or the fallback score), low / mark_false_positive below (0 or 1
\* signal), and the completed run reports the same pair
C14_DecideMapsScore ==
    Decided =>
        LET sc == orch.risk.score
            n == Len(orch.risk.signals)
            pair == <<orch.decision.risk, orch.decision.recommendation>>
        IN /\ pair \in {<<"high", "freeze_card">>, <<"medium", "contact_customer">>,
                        <<"low", "mark_false_positive">>}
           /\ (pair[1] = "high") <=> (sc >= 60)
           /\ (pair[1] = "medium") <=> (sc >= 30 /\ sc < 60)
           /\ (pair[1] = "low") <=> (sc < 30)
           /\ pair[1] = "high" => (n \in {3, 4} /\ orch.risk # FallbackResult)
           /\ pair[1] = "medium" => (n = 2 \/ orch.risk = FallbackResult)
           /\ pair[1] = "low" => n \in {0, 1}
           /\ Completed => <<CompleteResult.risk, CompleteResult.recommendation>> = pair

\* a decision from the fallback score
C14_Witness ==
    /\ Decided
    /\ orch.risk = FallbackResult
    /\ orch.decision.risk = "medium" /\ orch.decision.recommendation = "contact_customer"

TracesOf(id) == SelectSeq(agentTraces, LAMBDA t : t.run_id = id)
IsStepEvent(e) == e.type = "step"
StepEvents == SelectSeq(emitted, IsStepEvent)

\* C15: the AgentTrace rows of every TriageRun row are as many as the step events
\* emitted, with seq 0..n-1, the row of seq i holding the i-th step event
C15_TraceRowsMatchStepEvents ==
    \A r \in 1..Len(triageRuns) :
        LET rows == TracesOf(triageRuns[r].id) IN
           /\ Len(rows) = Len(StepEvents)
           /\ \A i \in 1..Len(rows) :
                  /\ rows[i].seq = i - 1
                  /\ rows[i].step = StepEvents[i].name
                  /\ rows[i].ok = StepEvents[i].ok

\* C16: no TriageRun row exists without the AgentTrace rows of all steps of its run
C16_RunRowHasItsTraces ==
    \A r \in 1..Len(triageRuns) :
        {t.seq : t \in Range(TracesOf(triageRuns[r].id))} = 0..(Len(orch.steps) - 1)

Errored == emitted # <<>> /\ emitted[Len(emitted)].type = "error"

\* C17: a run that ended with an error event has saved the AgentTrace rows of the
\* steps it executed and no TriageRun row
C17_ErrorRunKeepsTrace ==
    Errored => (Len(agentTraces) = Len(orch.steps) /\ triageRuns = <<>>)

\* C18: a run whose kbLookup step failed does not end with an error event: it
\* goes on to decide
C18_KbLookupNeverFailsRun ==
    (Step("kbLookup", FALSE) \in Range(orch.steps)) =>
        (~Errored /\ orch.pc \in {"decide", "createRun", "createTraces", "done"})

-----------------------------------------------------------------------------
(* Paging through the transactions of a customer *)

\* the client iterates with a page size k >= 1
PageSizeLimit == ~LimitNum(pg.limit).nan /\ LimitNum(pg.limit).n >= 1

\* the rows the cursor has passed
Passed(row) == pg.phase = "done" \/ ~AfterCursor(row, pg.cursor)

\* C19: with a page size k >= 1 the iteration never fails; the items returned so
\* far are in descending (ts, id) order without a duplicate, each page has at
\* most k items, and every transaction of the customer that existed at the first
\* request and that the cursor has passed (all of them once hasMore is false) has
\* been returned, whatever was inserted between the page requests
C19_KeysetPagination ==
    (PageSizeLimit /\ pg.phase # "idle") =>
        /\ pg.phase # "failed"
        /\ \A i \in 1..Len(pg.got) - 1 : Before(pg.got[i], pg.got[i + 1])
        /\ \A i \in 1..Len(pg.got) : pg.got[i].customer_id = PageCustomer
        /\ Len(pg.last.items) <= LimitNum(pg.limit).n
        /\ \A row \in pg.start : Passed(row) => \E i \in 1..Len(pg.got) : pg.got[i] = row
        /\ pg.phase = "done" => pg.start \subseteq {pg.got[i] : i \in 1..Len(pg.got)}

\* an iteration of three pages of 1 item, finished after an insert in between
C19_Witness ==
    /\ pg.phase = "done"
    /\ pg.limit = "1"
    /\ pg.pages >= 3
    /\ Cardinality(pg.start) = 3
    /\ Cardinality({row \in txns : row.customer_id = PageCustomer}) > Cardinality(pg.start)

\* C20: whatever limit the client sends, the page size used lies in [1, 100] and
\* the response is a page envelope with at most that many items
C20_LimitClamped ==
    pg.pages > 0 =>
        /\ pg.last.status = 200
        /\ ~pg.last.limitNum.nan
        /\ pg.last.limitNum.n \in 1..100
        /\ Len(pg.last.items) <= pg.last.limitNum.n

-----------------------------------------------------------------------------
(* The audit log, the status fields and the idempotency cache *)

C22_Step == IsPrefix(caseEvents, caseEvents')

\* C22: every step of an action handler or of a triage run leaves the CaseEvent
\* rows written so far in place and unchanged: the log only grows at its end
C22_CaseEventsAppendOnly == [][C22_Step]_vars

\* two actions have written their events and a triage run has ended
C22_Witness ==
    /\ Len(caseEvents) >= 2
    /\ orch.pc = "done"
    /\ triageRuns # <<>>

C23_Step ==
    \A c \in CardIds :
        cards'[c] # cards[c] => (cards[c] = "active" /\ cards'[c] = "frozen")

\* C23: a step changes the status of a card only from active to frozen
C23_OnlyActiveToFrozen == [][C23_Step]_vars

C24_Step ==
    \A a \in AlertIds :
        alerts'[a] # alerts[a] => (alerts[a] = "open" /\ alerts'[a] # "open")

\* C24: a step changes the status of an alert only when the alert is open, and
\* never to open
C24_OnlyOpenAlertsChange == [][C24_Step]_vars

\* the request was answered from the idempotency cache
Replayed(q) == q.pc = "done" /\ ~q.handled /\ q.res.code = 200

\* the bodies sent with status 400, 404 and 500
ErrorStatuses == {"NOT_FOUND", "OTP_FAILED", "Confirmation required", "FAILED"}

\* C25: no request is answered from the cache with the body of an error response
C25_OnlySuccessCached ==
    \A r \in ReqIds : Replayed(reqs[r]) => reqs[r].res.body.status \notin ErrorStatuses

\* the bodies each action endpoint produces
RouteStatuses(route) ==
    CASE route = "freeze-card" -> {"FROZEN", "ALREADY_FROZEN", "PENDING_OTP", "OTP_FAILED", "NOT_FOUND", "FAILED"}
      [] route = "open-dispute" -> {"OPEN", "ALREADY_EXISTS", "Confirmation required", "NOT_FOUND", "FAILED"}
      [] route = "mark-false-positive" -> {"CLOSED", "NOT_FOUND", "FAILED"}

\* C26: a request answered from the cache gets a body its own endpoint produced
\* for its own target, never the response to a request for something else
C26_KeysScoped ==
    \A r \in ReqIds :
        Replayed(reqs[r]) =>
            /\ reqs[r].res.body.status \in RouteStatuses(reqs[r].in.route)
            /\ reqs[r].res.body.status \in {"FROZEN", "ALREADY_FROZEN"} =>
                   (reqs[r].in.target \in CardIds /\ cards[reqs[r].in.target] = "frozen")

-----------------------------------------------------------------------------
(* Rejections and store failures of the rate limiter *)

\* the calls of client c, answered or not
CallsOf(c) == Len(rlLog[c]) + Len(pending[c])

\* client c made six calls, all answered, less than one second apart
SixInOneSecond(c) ==
    /\ Len(rlLog[c]) = 6 /\ pending[c] = <<>>
    /\ \A i, j \in 1..6 : rlLog[c][i].t - rlLog[c][j].t < windowMs

\* C27: every rejection carries a retryAfter of at least 1 (whole seconds); of six
\* calls of a client within one second the first five are admitted and the sixth
\* is answered 429 with Retry-After 1
C27_RetryAfter ==
    \A c \in Clients :
        /\ \A i \in 1..Len(rlLog[c]) :
               ~rlLog[c][i].allowed =>
                   /\ rlLog[c][i].retryAfter >= 1
                   /\ RateLimitMiddleware(rlLog[c][i]).status = 429
                   /\ RateLimitMiddleware(rlLog[c][i]).retryAfterHeader = rlLog[c][i].retryAfter
        /\ SixInOneSecond(c) =>
               /\ \A i \in 1..5 : RateLimitMiddleware(rlLog[c][i]).next
               /\ RateLimitMiddleware(rlLog[c][6]) =
                      [next |-> FALSE, status |-> 429, retryAfterHeader |-> 1]

\* six calls of a client at two instants half a second apart
C27_Witness ==
    \E c \in Clients :
        /\ SixInOneSecond(c)
        /\ rlLog[c][1].t = 0 /\ rlLog[c][6].t = 500
        /\ ~rlLog[c][6].allowed /\ rlLog[c][6].retryAfter = 1

\* C28: a call of checkLimit in which a store call failed is admitted and goes on
\* to its handler, however many calls the client made in the window
C28_FailOpen ==
    \A c \in Clients : \A i \in 1..Len(rlLog[c]) :
        rlLog[c][i].failed =>
            (rlLog[c][i].allowed /\ RateLimitMiddleware(rlLog[c][i]).next)

\* a sixth and a seventh call at one instant, admitted because the store failed
C28_Witness ==
    \E c \in Clients :
        /\ Len(rlLog[c]) = 7
        /\ \A i \in 1..7 : rlLog[c][i].t = 0 /\ rlLog[c][i].allowed
        /\ \E i, j \in 1..7 : i # j /\ rlLog[c][i].failed /\ rlLog[c][j].failed

-----------------------------------------------------------------------------
(* Reasons of a decision; lifetime of a registry entry *)

ReasonsOf(risk) == IF risk.signals # <<>> THEN risk.signals ELSE <<"no_clear_risk">>

\* C29: the reasons of every complete event and of every TriageRun row are not
\* empty: they are the signals raised, or no_clear_risk when none was raised
C29_ReasonsNonEmpty ==
    /\ \A i \in 1..Len(emitted) :
           emitted[i].type = "complete" =>
               /\ emitted[i].result.reasons # <<>>
               /\ emitted[i].result.reasons = ReasonsOf(orch.risk)
    /\ \A r \in 1..Len(triageRuns) :
           /\ triageRuns[r].reasons # <<>>
           /\ triageRuns[r].reasons = ReasonsOf(orch.risk)

\* a completed run in which no signal was raised
C29_Witness ==
    /\ Completed
    /\ orch.risk.signals = <<>>
    /\ CompleteResult.reasons = <<"no_clear_risk">>
    /\ triageRuns # <<>> /\ triageRuns[1].reasons = <<"no_clear_risk">>

C30_InRegistryWhileRunning == orch.pc \notin {"idle", "done"} => activeRuns

C30_RemovalStep == (activeRuns /\ ~activeRuns') => orch.pc = "done"

\* C30: a run is in the registry from its start to its terminal event, its entry
\* is removed only after the terminal event, and it is removed in the end
C30_RegistryLifetime ==
    /\ []C30_InRegistryWhileRunning
    /\ [][C30_RemovalStep]_vars
    /\ (orch.pc # "idle") ~> (orch.pc = "done" /\ ~activeRuns)

\* the entry of a run that ended was removed, while a stream was still attached
C30_Witness ==
    /\ orch.pc = "done" /\ ~activeRuns
    /\ \E s \in StreamIds : streams[s].pc = "ended" /\ GotTerminal(s)

-----------------------------------------------------------------------------
(* Redaction of card numbers *)

\* the runs of 13 to 19 digits of a text
PanRuns(text) ==
    {i \in 1..Len(text) : text[i].kind = "digits" /\ text[i].n >= 13 /\ text[i].n <= 19}

\* C21: for a text with a run of 13 to 19 digits redactPII returns masked = true
\* and a text that holds the marker and none of these runs
C21_PanRedacted ==
    (red.done /\ PanRuns(red.text) # {}) =>
        /\ red.masked
        /\ \E i \in 1..Len(red.redacted) : red.redacted[i] = Marker
        /\ PanRuns(red.redacted) = {}

-----------------------------------------------------------------------------
(* Termination of a run *)

TerminalEmitted == \E i \in 1..Len(emitted) : emitted[i].type \in TerminalTypes

-----------------------------------------------------------------------------
(* Retry frames *)

\* the events emitted, and the frames written to stream s, by the step taken
NewEvents == SubSeq(emitted', Len(emitted) + 1, Len(emitted'))
NewFrames(s) == SubSeq(streams'[s].frames, Len(streams[s].frames) + 1, Len(streams'[s].frames))

Subscribed(s) == streams[s].pc = "subscribed" /\ streams[s].listening /\ streams[s].clientOpen

C32_Step ==
    \A s \in StreamIds :
        Subscribed(s) =>
            \A i \in 1..Len(NewEvents) :
                NewEvents[i].type = "retry" =>
                    \E j \in 1..Len(NewFrames(s)) - 1 :
                        /\ NewFrames(s)[j] = NewEvents[i]
                        /\ NewFrames(s)[j + 1].type = "step"

\* C32: a retry event emitted while a stream is subscribed is written to the
\* stream as a retry frame, before the step frame of the attempt it announces
C32_RetryFrames == [][C32_Step]_vars

-----------------------------------------------------------------------------
(* Backoff *)

\* C33: the run sleeps 150 ms before the first retry of riskSignals and 400 ms
\* before the second
C33_BackoffDelays ==
    /\ Len(orch.delays) >= 1 => orch.delays[1] = 150
    /\ Len(orch.delays) >= 2 => orch.delays[2] = 400

-----------------------------------------------------------------------------
(* Order of the steps *)

\* the place of a step in the run; the fallback step stands in for riskSignals
Stage(name) ==
    CASE name = "getProfile" -> 1
      [] name = "recentTransactions" -> 2
      [] name \in {"riskSignals", "riskSignals_fallback"} -> 3
      [] name = "kbLookup" -> 4
      [] name = "decide" -> 5

\* step i + 1 follows step i: the next stage after a success, or a further
\* attempt (or the fallback) of riskSignals after a failed attempt
Follows(a, b) ==
    \/ a.ok /\ Stage(b.name) = Stage(a.name) + 1
    \/ ~a.ok /\ a.name = "riskSignals" /\ Stage(b.name) = 3

\* C34: the steps run in the order getProfile, recentTransactions, riskSignals,
\* kbLookup, decide, each after the success (or the fallback) of the one before;
\* for a missing alert only getProfile runs, it fails, and the run ends with error
C34_StepsInOrder ==
    /\ orch.steps # <<>> => orch.steps[1].name = "getProfile"
    /\ \A i \in 1..Len(orch.steps) - 1 : Follows(orch.steps[i], orch.steps[i + 1])
    /\ ~tdb.alertExists =>
           /\ orch.steps \in {<<>>, <<Step("getProfile", FALSE)>>}
           /\ orch.pc = "done" => Errored

\* a complete run in which the fallback stood in for riskSignals
C34_Witness ==
    /\ Completed
    /\ Len(FallbackSteps) = 1
    /\ orch.steps[Len(orch.steps)].name = "decide"

-----------------------------------------------------------------------------
(* Concurrent freeze-card requests *)

\* the requests whose handler answered FROZEN for card c
FrozenResponses(c) ==
    {r \in ReqIds :
        /\ reqs[r].pc = "done" /\ reqs[r].handled
        /\ reqs[r].in.route = "freeze-card" /\ reqs[r].in.target = c
        /\ reqs[r].res.body.status = "FROZEN"}

\* C35: whatever the interleaving of concurrent freeze-card requests for the
\* active card, at most one answers FROZEN and the card has at most one
\* card_freeze Case and one card_frozen CaseEvent
C35_OneFreezePerCard ==
    /\ Cardinality(FrozenResponses("c1")) <= 1
    /\ Cardinality(FreezeCasesOf("c1")) <= 1
    /\ Cardinality(FrozenEvents("c1")) <= 1

-----------------------------------------------------------------------------
(* The fallback flag *)

\* C36: fallbackUsed of the result and fallback_used of the run row are true
\* exactly when the run has a riskSignals_fallback step; a run whose retry of
\* riskSignals succeeded reports false
C36_FallbackFlag ==
    /\ Completed => (CompleteResult.fallbackUsed <=> Len(FallbackSteps) = 1)
    /\ \A i \in 1..Len(triageRuns) : triageRuns[i].fallback_used <=> Len(FallbackSteps) = 1

-----------------------------------------------------------------------------
(* The OTP requirement of triage and of freeze-card *)

\* a freeze-card call without an OTP for the active card c1 was answered
FreezeWithoutOtpAnswered ==
    /\ reqs[1].pc = "done" /\ reqs[1].handled
    /\ reqs[1].in.route = "freeze-card" /\ reqs[1].in.target = "c1"
    /\ reqs[1].in.otp = NoOtp /\ reqs[1].snap = "active"

\* C37: for one customer, the decide step of a high-risk run reports requiresOtp
\* exactly when freeze-card without an OTP for the active card answers PENDING_OTP
C37_OtpAgrees ==
    (Decided /\ orch.decision.risk = "high" /\ FreezeWithoutOtpAnswered) =>
        (orch.decision.requiresOtp <=> reqs[1].res.body.status = "PENDING_OTP")

-----------------------------------------------------------------------------
(* Rejected requests count *)

\* the calls client c made in the second before now, whatever their outcome
CallsInWindow(c, now) ==
    Len(SelectSeq(rlLog[c], LAMBDA e : e.t > now - windowMs))
        + Len(SelectSeq(pending[c], LAMBDA t : t > now - windowMs))

\* the step is a call of client c that is admitted
CallAdmitted(c) ==
    /\ Len(rlLog'[c]) = Len(rlLog[c]) + 1
    /\ rlLog'[c][Len(rlLog'[c])].allowed

\* a call of client c reaches the store
C38_Step ==
    \A c \in Clients :
        zsets'[c] # zsets[c] => (CallAdmitted(c) <=> CallsInWindow(c, clock) <= capacity - 1)

\* C38: a call is admitted exactly when its client made at most 4 other calls,
\* admitted or rejected, in the second before it; so a client that goes on with
\* more than 5 calls per second stays rejected
C38_RejectedCallsCount == [][C38_Step]_vars

\* a call is rejected although fewer than 5 admitted calls are in its window: the
\* rejected ones before it were counted
C38_Witness ==
    /\ pending["ip1"] = <<>>
    /\ \E i \in 1..Len(rlLog["ip1"]) :
          LET e == rlLog["ip1"][i] IN
          /\ ~e.allowed
          /\ Cardinality(Admitted("ip1", e.t - windowMs, e.t)) < capacity

-----------------------------------------------------------------------------
(* Signals of the suspect transaction *)

\* C39: for an alert without a suspect transaction the riskSignals step raises
\* neither large_amount nor foreign_transaction
C39_NoTxnNoTxnSignals ==
    (tdb.alertExists /\ tdb.suspect = NoTxn /\ Step("riskSignals", TRUE) \in Range(orch.steps)) =>
        /\ "large_amount" \notin Range(orch.risk.signals)
        /\ "foreign_transaction" \notin Range(orch.risk.signals)

====
